---- MODULE Spec2Model ----
(***************************************************************************)
(* Model of joao-ressel/go-server: the apiHandler of internal/api/api.go   *)
(* (the subscribers registry, its mutex, handleSubscribe, notifyClients    *)
(* and the mutating HTTP handlers) over the queries of the pgstore SQL.    *)
(***************************************************************************)
EXTENDS Integers, Sequences, FiniteSets, TLC

\* ------------------------------------------------------------------ bounds
NumConns == 2      \* websocket connections (handleSubscribe invocations)
MaxRooms == 2      \* rows the rooms table can hold
MaxMsgs  == 1      \* rows the messages table can hold
MaxPubs  == 2      \* notifyClients goroutines spawned in one run

Conns      == 1..NumConns
RoomIDs    == 1..MaxRooms
MsgIDs     == 1..MaxMsgs
\* A raw URL parameter: 0 stands for a string uuid.Parse rejects, every other
\* value parses (and may or may not name a row).
RawRoomIDs == 0..MaxRooms
RawMsgIDs  == 0..MaxMsgs
Texts      == {"hello"}

\* ------------------------------------------------------- program constants
MessageKindMessageCreated          == "message_created"
MessageKindMessageRactionIncreased == "message_reaction_increased"
MessageKindMessageRactionDecreased == "message_reaction_decreased"
MessageKindMessageAnswered         == "message_answered"

StatusOK                  == 200
StatusBadRequest          == 400
StatusInternalServerError == 500

VARIABLES
  rooms,        \* table rooms: the set of room ids that have a row
  messages,     \* table messages: id -> [room_id, message, reaction_count, answered]
  subscribers,  \* h.subscribers: room id -> set of connections (map of maps)
  mu,           \* h.mu: the task that holds the mutex, or NoOwner
  connPc,       \* where each handleSubscribe invocation stands
  connRoom,     \* rawRoomID of each handleSubscribe invocation
  cancelled,    \* whether ctx of each handleSubscribe invocation is done
  pubs,         \* the notifyClients goroutines, in the order they were spawned
  wire,         \* per connection: the WriteJSON calls made on it, in order
  lastResp,     \* the HTTP response of the last request that finished
  peer          \* per connection: what the remote end of the websocket does

vars == <<rooms, messages, subscribers, mu, connPc, connRoom, cancelled,
          pubs, wire, lastResp, peer>>

NoOwner      == <<"none", 0>>
ConnTask(c)  == <<"conn", c>>
PubTask(p)   == <<"pub", p>>

\* type Message struct {Kind, Value, RoomID}; Value flattened to ID/Count/Message
Message(kind, room, id, count, text) ==
  [Kind |-> kind, RoomID |-> room, ID |-> id, Count |-> count, Message |-> text]

\* What the client of a request is told: which handler answered, and the status.
Resp(op, status) == [op |-> op, status |-> status]

\* -------------------------------------------------------------------- Init
\* NewHandler: an empty subscribers map and an unlocked mutex, over a database
\* with no rows yet.
Init ==
  /\ rooms = {}
  /\ messages = <<>>
  /\ subscribers = <<>>
  /\ mu = NoOwner
  /\ connPc = [c \in Conns |-> "idle"]
  /\ connRoom = [c \in Conns |-> 0]
  /\ cancelled = [c \in Conns |-> FALSE]
  /\ pubs = <<>>
  /\ wire = [c \in Conns |-> <<>>]
  /\ lastResp = Resp("none", 0)
  /\ peer = [c \in Conns |-> "reading"]

\* ----------------------------------------------------------------- storage
\* InsertRoom / InsertMessage ... RETURNING "id": the id of the new row, one no
\* row has yet.
NewRoomID == CHOOSE r \in RoomIDs : r \notin rooms /\ \A q \in RoomIDs \ rooms : r <= q
NewMsgID  == CHOOSE m \in MsgIDs : m \notin DOMAIN messages
                                   /\ \A q \in MsgIDs \ DOMAIN messages : m <= q

\* InsertMessage: the table with the new row (reaction_count 0, answered false).
InsertMessage(table, id, room, text) ==
  [m \in DOMAIN table \cup {id} |->
     IF m = id
       THEN [room_id |-> room, message |-> text, reaction_count |-> 0, answered |-> FALSE]
       ELSE table[m]]

\* A ":one" query scans exactly one row: with no row for the id it returns
\* pgx.ErrNoRows; fault "db" is any other failure of the database.
OneRowErr(table, id, fault) == fault = "db" \/ id \notin DOMAIN table

\* ReactToMessage :one -- UPDATE ... reaction_count + 1 WHERE id = $1 RETURNING
ReactToMessage(table, id) ==
  [table EXCEPT ![id].reaction_count = @ + 1]

\* RemoveReactionFromMessage :one -- UPDATE ... reaction_count - 1 WHERE id = $1
RemoveReactionFromMessage(table, id) ==
  [table EXCEPT ![id].reaction_count = @ - 1]

\* An ":exec" statement reports only a failure of the database: an UPDATE whose
\* WHERE matches no row is not an error.
ExecErr(table, id, fault) == fault = "db"

\* MarkMessageAsAnswered :exec -- UPDATE ... answered = true WHERE id = $1
MarkMessageAsAnswered(table, id) ==
  IF id \in DOMAIN table THEN [table EXCEPT ![id].answered = TRUE] ELSE table

\* h.readRoom: the room id of the URL must parse and name a row of rooms.
readRoom(rawRoomID, fault) == rawRoomID # 0 /\ fault # "room" /\ rawRoomID \in rooms

readRoomStatus(rawRoomID, fault) ==
  IF rawRoomID # 0 /\ fault = "room" THEN StatusInternalServerError ELSE StatusBadRequest

\* uuid.Parse(rawID): err == nil
ParseOK(rawID) == rawID # 0

\* ------------------------------------------------------------------- mutex
\* Mutant of MutexLock: Lock returns at once, whoever holds the mutex.
MutexLockNoWait(task) == mu' = task

\* mu.Lock(): blocks until the mutex is free
MutexLock(task) == mu = NoOwner /\ mu' = task

MutexUnlock == mu' = NoOwner

\* ----------------------------------------------------- request handlers
\* Mutant of Spawn: notifyClients is called without "go", so the handler
\* returns only if the mutex can be taken.
SpawnInline(msg) ==
  /\ mu = NoOwner
  /\ pubs' = Append(pubs, [msg |-> msg, pc |-> "spawned", todo |-> {}, snap |-> {}])

\* go h.notifyClients(msg): a new goroutine, not yet running.
Spawn(msg) ==
  pubs' = Append(pubs, [msg |-> msg, pc |-> "spawned", todo |-> {}, snap |-> {}])

HubUnchanged == UNCHANGED <<subscribers, mu, connPc, connRoom, cancelled, wire, peer>>

\* http.Error(w, ..., status) and return: nothing but the response.
Fail(op, status) ==
  /\ lastResp' = Resp(op, status)
  /\ UNCHANGED <<rooms, messages, pubs>>

\* l.173-195
HandleCreateRoom(fault) ==
  /\ HubUnchanged
  /\ IF fault = "json" THEN Fail("create_room", StatusBadRequest)
     ELSE IF fault = "db" THEN Fail("create_room", StatusInternalServerError)
     ELSE /\ Cardinality(rooms) < MaxRooms
          /\ rooms' = rooms \cup {NewRoomID}
          /\ lastResp' = Resp("create_room", StatusOK)
          /\ UNCHANGED <<messages, pubs>>

\* l.224-261
HandleCreateRoomMessage(rawRoomID, text, fault) ==
  /\ HubUnchanged
  /\ IF ~readRoom(rawRoomID, fault)
       THEN Fail("create_message", readRoomStatus(rawRoomID, fault))
     ELSE IF fault = "json" THEN Fail("create_message", StatusBadRequest)
     ELSE IF fault = "db" THEN Fail("create_message", StatusInternalServerError)
     ELSE /\ Cardinality(DOMAIN messages) < MaxMsgs
          /\ Len(pubs) < MaxPubs
          /\ messages' = InsertMessage(messages, NewMsgID, rawRoomID, text)
          /\ lastResp' = Resp("create_message", StatusOK)
          /\ Spawn(Message(MessageKindMessageCreated, rawRoomID, NewMsgID, 0, text))
          /\ UNCHANGED rooms

\* Mutant of HandleReactToMessage: the goroutine is started before the error of
\* the query is looked at.
HandleReactToMessageNotifiesFirst(rawRoomID, rawID, fault) ==
  /\ HubUnchanged
  /\ IF ~readRoom(rawRoomID, fault)
       THEN Fail("react", readRoomStatus(rawRoomID, fault))
     ELSE IF ~ParseOK(rawID) THEN Fail("react", StatusBadRequest)
     ELSE IF OneRowErr(messages, rawID, fault)
       THEN /\ Len(pubs) < MaxPubs
            /\ lastResp' = Resp("react", StatusInternalServerError)
            /\ Spawn(Message(MessageKindMessageRactionIncreased, rawRoomID, rawID, 0, ""))
            /\ UNCHANGED <<rooms, messages>>
     ELSE /\ Len(pubs) < MaxPubs
          /\ messages' = ReactToMessage(messages, rawID)
          /\ lastResp' = Resp("react", StatusOK)
          /\ Spawn(Message(MessageKindMessageRactionIncreased, rawRoomID, rawID,
                           messages'[rawID].reaction_count, ""))
          /\ UNCHANGED rooms

\* l.314-349
HandleReactToMessage(rawRoomID, rawID, fault) ==
  /\ HubUnchanged
  /\ IF ~readRoom(rawRoomID, fault)
       THEN Fail("react", readRoomStatus(rawRoomID, fault))
     ELSE IF ~ParseOK(rawID) THEN Fail("react", StatusBadRequest)
     ELSE IF OneRowErr(messages, rawID, fault)
       THEN Fail("react", StatusInternalServerError)
     ELSE /\ Len(pubs) < MaxPubs
          /\ messages' = ReactToMessage(messages, rawID)
          /\ lastResp' = Resp("react", StatusOK)
          /\ Spawn(Message(MessageKindMessageRactionIncreased, rawRoomID, rawID,
                           messages'[rawID].reaction_count, ""))
          /\ UNCHANGED rooms

\* Mutant of HandleRemoveReactFromMessage: the event carries the count read
\* before the UPDATE.
HandleRemoveReactFromMessageStaleCount(rawRoomID, rawID, fault) ==
  /\ HubUnchanged
  /\ IF ~readRoom(rawRoomID, fault)
       THEN Fail("unreact", readRoomStatus(rawRoomID, fault))
     ELSE IF ~ParseOK(rawID) THEN Fail("unreact", StatusBadRequest)
     ELSE IF OneRowErr(messages, rawID, fault)
       THEN Fail("unreact", StatusInternalServerError)
     ELSE /\ Len(pubs) < MaxPubs
          /\ messages' = RemoveReactionFromMessage(messages, rawID)
          /\ lastResp' = Resp("unreact", StatusOK)
          /\ Spawn(Message(MessageKindMessageRactionDecreased, rawRoomID, rawID,
                           messages[rawID].reaction_count, ""))
          /\ UNCHANGED rooms

\* l.352-387
HandleRemoveReactFromMessage(rawRoomID, rawID, fault) ==
  /\ HubUnchanged
  /\ IF ~readRoom(rawRoomID, fault)
       THEN Fail("unreact", readRoomStatus(rawRoomID, fault))
     ELSE IF ~ParseOK(rawID) THEN Fail("unreact", StatusBadRequest)
     ELSE IF OneRowErr(messages, rawID, fault)
       THEN Fail("unreact", StatusInternalServerError)
     ELSE /\ Len(pubs) < MaxPubs
          /\ messages' = RemoveReactionFromMessage(messages, rawID)
          /\ lastResp' = Resp("unreact", StatusOK)
          /\ Spawn(Message(MessageKindMessageRactionDecreased, rawRoomID, rawID,
                           messages'[rawID].reaction_count, ""))
          /\ UNCHANGED rooms

\* l.390-420
HandleMarkMessageAsAnswered(rawRoomID, rawID, fault) ==
  /\ HubUnchanged
  /\ IF ~readRoom(rawRoomID, fault)
       THEN Fail("answer", readRoomStatus(rawRoomID, fault))
     ELSE IF ~ParseOK(rawID) THEN Fail("answer", StatusBadRequest)
     ELSE IF ExecErr(messages, rawID, fault)
       THEN Fail("answer", StatusInternalServerError)
     ELSE /\ Len(pubs) < MaxPubs
          /\ messages' = MarkMessageAsAnswered(messages, rawID)
          /\ lastResp' = Resp("answer", StatusOK)
          /\ Spawn(Message(MessageKindMessageAnswered, rawRoomID, rawID, 0, ""))
          /\ UNCHANGED rooms

\* ----------------------------------------------------------- handleSubscribe
StoreUnchanged == UNCHANGED <<rooms, messages>>

\* h.subscribers[room] read as Go reads a map of maps: a missing key is the nil
\* map, which has no element.
Listeners(room) == IF room \in DOMAIN subscribers THEN subscribers[room] ELSE {}

\* The same read on a registry value reg.
ListenersIn(reg, room) == IF room \in DOMAIN reg THEN reg[room] ELSE {}

\* Mutant of Register: the connection is added to the map of every room.
RegisterInEveryRoom(reg, room, c) ==
  [r \in DOMAIN reg \cup {room} |-> ListenersIn(reg, r) \cup {c}]

\* l.158-162: the registry after the room's map is created when it is missing
\* and the connection is stored in it.
Register(reg, room, c) ==
  [r \in DOMAIN reg \cup {room} |->
     IF r = room THEN ListenersIn(reg, r) \cup {c} ELSE reg[r]]

\* Mutant of Unregister: the room's map is deleted with the connection.
UnregisterDropsRoom(reg, room, c) ==
  [r \in DOMAIN reg \ {room} |-> reg[r]]

\* Mutant of Unregister: the room's map is rebuilt without the connection and
\* stored back, whether the room had a map or not.
UnregisterMakesRoom(reg, room, c) ==
  [r \in DOMAIN reg \cup {room} |->
     IF r = room THEN ListenersIn(reg, r) \ {c} ELSE reg[r]]

\* l.168: delete(h.subscribers[rawRoomID], c) -- the connection leaves the
\* room's map, the room keeps its (possibly empty) map; delete on the nil map
\* of a room that has none does nothing.
Unregister(reg, room, c) ==
  [r \in DOMAIN reg |-> IF r = room THEN reg[r] \ {c} ELSE reg[r]]

\* l.141-155: readRoom, Upgrade, context.WithCancel. A request that is rejected
\* leaves no trace but its response.
SubscribeStart(c, rawRoomID, fault) ==
  /\ connPc[c] = "idle"
  /\ StoreUnchanged
  /\ UNCHANGED <<subscribers, mu, cancelled, pubs, wire, peer>>
  /\ IF ~readRoom(rawRoomID, fault)
       THEN /\ lastResp' = Resp("subscribe", readRoomStatus(rawRoomID, fault))
            /\ UNCHANGED <<connPc, connRoom>>
     ELSE IF fault = "upgrade"
       THEN /\ lastResp' = Resp("subscribe", StatusBadRequest)
            /\ UNCHANGED <<connPc, connRoom>>
     ELSE /\ connPc' = [connPc EXCEPT ![c] = "lock1"]
          /\ connRoom' = [connRoom EXCEPT ![c] = rawRoomID]
          /\ UNCHANGED lastResp

\* l.157: h.mu.Lock()
SubscribeLock1(c) ==
  /\ connPc[c] = "lock1"
  /\ MutexLock(ConnTask(c))
  /\ connPc' = [connPc EXCEPT ![c] = "cs1"]
  /\ StoreUnchanged
  /\ UNCHANGED <<subscribers, connRoom, cancelled, pubs, wire, lastResp, peer>>

\* l.158-163: create the room's map when it is missing, add the connection,
\* unlock.
SubscribeRegister(c) ==
  /\ connPc[c] = "cs1"
  /\ subscribers' = Register(subscribers, connRoom[c], c)
  /\ MutexUnlock
  /\ connPc' = [connPc EXCEPT ![c] = "wait"]
  /\ StoreUnchanged
  /\ UNCHANGED <<connRoom, cancelled, pubs, wire, lastResp, peer>>

\* r.Context() is cancelled (the parent of ctx) while the handler runs.
RequestCtxCancel(c) ==
  /\ connPc[c] \in {"lock1", "cs1", "wait"}
  /\ ~cancelled[c]
  /\ cancelled' = [cancelled EXCEPT ![c] = TRUE]
  /\ StoreUnchanged
  /\ UNCHANGED <<subscribers, mu, connPc, connRoom, pubs, wire, lastResp, peer>>

\* Mutant of SubscribeDone: once the context is done the handler returns
\* without the Lock and the delete.
SubscribeDoneReturns(c) ==
  /\ connPc[c] = "wait"
  /\ cancelled[c]
  /\ connPc' = [connPc EXCEPT ![c] = "closing"]
  /\ StoreUnchanged
  /\ UNCHANGED <<subscribers, mu, connRoom, cancelled, pubs, wire, lastResp, peer>>

\* Mutant of SubscribeDone: the handler does not wait for the context.
SubscribeDoneNoWait(c) ==
  /\ connPc[c] = "wait"
  /\ connPc' = [connPc EXCEPT ![c] = "lock2"]
  /\ StoreUnchanged
  /\ UNCHANGED <<subscribers, mu, connRoom, cancelled, pubs, wire, lastResp, peer>>

\* l.165: <-ctx.Done() returns
SubscribeDone(c) ==
  /\ connPc[c] = "wait"
  /\ cancelled[c]
  /\ connPc' = [connPc EXCEPT ![c] = "lock2"]
  /\ StoreUnchanged
  /\ UNCHANGED <<subscribers, mu, connRoom, cancelled, pubs, wire, lastResp, peer>>

\* l.167: h.mu.Lock()
SubscribeLock2(c) ==
  /\ connPc[c] = "lock2"
  /\ MutexLock(ConnTask(c))
  /\ connPc' = [connPc EXCEPT ![c] = "cs2"]
  /\ StoreUnchanged
  /\ UNCHANGED <<subscribers, connRoom, cancelled, pubs, wire, lastResp, peer>>

\* Mutant of SubscribeUnregister: the delete is missing.
SubscribeUnregisterKeeps(c) ==
  /\ connPc[c] = "cs2"
  /\ MutexUnlock
  /\ connPc' = [connPc EXCEPT ![c] = "closing"]
  /\ StoreUnchanged
  /\ UNCHANGED <<subscribers, connRoom, cancelled, pubs, wire, lastResp, peer>>

\* l.168-169: delete(h.subscribers[rawRoomID], c), unlock. The room keeps its
\* (possibly empty) map.
SubscribeUnregister(c) ==
  /\ connPc[c] = "cs2"
  /\ subscribers' = Unregister(subscribers, connRoom[c], c)
  /\ MutexUnlock
  /\ connPc' = [connPc EXCEPT ![c] = "closing"]
  /\ StoreUnchanged
  /\ UNCHANGED <<connRoom, cancelled, pubs, wire, lastResp, peer>>

\* l.153: the deferred c.Close() runs as the handler returns.
SubscribeClose(c) ==
  /\ connPc[c] = "closing"
  /\ connPc' = [connPc EXCEPT ![c] = "closed"]
  /\ StoreUnchanged
  /\ UNCHANGED <<subscribers, mu, connRoom, cancelled, pubs, wire, lastResp, peer>>

\* ------------------------------------------------------------- notifyClients
PubIDs == 1..Len(pubs)

\* l.123: h.mu.Lock()
NotifyLock(p) ==
  /\ pubs[p].pc = "spawned"
  /\ MutexLock(PubTask(p))
  /\ pubs' = [pubs EXCEPT ![p].pc = "locked"]
  /\ StoreUnchanged
  /\ UNCHANGED <<subscribers, connPc, connRoom, cancelled, wire, lastResp, peer>>

\* Mutant of RangeOver: the range visits the connections of every room.
RangeOverAllRooms(msg) == UNION {subscribers[r] : r \in DOMAIN subscribers}

\* l.126: subscribers, ok := h.subscribers[msg.RoomID] -- the connections the
\* range statement will visit.
RangeOver(msg) == Listeners(msg.RoomID)

\* Mutant of NotifyLookup: the room's map is copied and the mutex released
\* before the writes.
NotifyLookupUnlocksBeforeWrites(p) ==
  /\ pubs[p].pc = "locked"
  /\ IF pubs[p].msg.RoomID \notin DOMAIN subscribers \/ RangeOver(pubs[p].msg) = {}
       THEN pubs' = [pubs EXCEPT ![p].pc = "done"]
       ELSE pubs' = [pubs EXCEPT ![p].pc = "range",
                                 ![p].todo = RangeOver(pubs[p].msg),
                                 ![p].snap = RangeOver(pubs[p].msg)]
  /\ MutexUnlock
  /\ StoreUnchanged
  /\ UNCHANGED <<subscribers, connPc, connRoom, cancelled, wire, lastResp, peer>>

\* Mutant of NotifyLookup: the early return does not unlock (no defer).
NotifyLookupReturnsLocked(p) ==
  /\ pubs[p].pc = "locked"
  /\ IF pubs[p].msg.RoomID \notin DOMAIN subscribers \/ RangeOver(pubs[p].msg) = {}
       THEN pubs' = [pubs EXCEPT ![p].pc = "done"]
       ELSE pubs' = [pubs EXCEPT ![p].pc = "range",
                                 ![p].todo = RangeOver(pubs[p].msg),
                                 ![p].snap = RangeOver(pubs[p].msg)]
  /\ UNCHANGED mu
  /\ StoreUnchanged
  /\ UNCHANGED <<subscribers, connPc, connRoom, cancelled, wire, lastResp, peer>>

\* l.126-131: with no map for the room or an empty one, return (the deferred
\* Unlock runs); otherwise start ranging over the room's map, the lock held.
NotifyLookup(p) ==
  /\ pubs[p].pc = "locked"
  /\ IF pubs[p].msg.RoomID \notin DOMAIN subscribers \/ RangeOver(pubs[p].msg) = {}
       THEN /\ pubs' = [pubs EXCEPT ![p].pc = "done"]
            /\ MutexUnlock
       ELSE /\ pubs' = [pubs EXCEPT ![p].pc = "range",
                                    ![p].todo = RangeOver(pubs[p].msg),
                                    ![p].snap = RangeOver(pubs[p].msg)]
            /\ UNCHANGED mu
  /\ StoreUnchanged
  /\ UNCHANGED <<subscribers, connPc, connRoom, cancelled, wire, lastResp, peer>>

\* Mutant of OnWriteError: the error is logged and cancel() is not called.
OnWriteErrorLogsOnly(c) == UNCHANGED cancelled

\* l.133-134: slog.Error(...); cancel() after a failed write
OnWriteError(c) == cancelled' = [cancelled EXCEPT ![c] = TRUE]

\* Mutant of NotifyWrite: a connection whose write failed is deleted from the
\* room's map by notifyClients itself.
NotifyWriteRemovesOnError(p, c, ok) ==
  /\ pubs[p].pc = "range"
  /\ c \in pubs[p].todo
  /\ peer[c] # "stalled"
  /\ wire' = [wire EXCEPT ![c] = Append(@, [pub |-> p, ok |-> ok])]
  /\ IF ok THEN UNCHANGED <<cancelled, subscribers>>
           ELSE /\ OnWriteError(c)
                /\ subscribers' = Unregister(subscribers, pubs[p].msg.RoomID, c)
  /\ pubs' = [pubs EXCEPT ![p].todo = @ \ {c}]
  /\ StoreUnchanged
  /\ UNCHANGED <<mu, connPc, connRoom, lastResp, peer>>

\* l.132-135: one iteration of the range: conn.WriteJSON(msg) succeeds or
\* fails; on failure the connection's cancel function is called. No write
\* deadline is set on the connection, so the call returns only once the
\* socket takes the frame or reports an error: it does not return while the
\* peer is stalled.
NotifyWrite(p, c, ok) ==
  /\ pubs[p].pc = "range"
  /\ c \in pubs[p].todo
  /\ peer[c] # "stalled"
  /\ wire' = [wire EXCEPT ![c] = Append(@, [pub |-> p, ok |-> ok])]
  /\ IF ok THEN UNCHANGED cancelled ELSE OnWriteError(c)
  /\ pubs' = [pubs EXCEPT ![p].todo = @ \ {c}]
  /\ StoreUnchanged
  /\ UNCHANGED <<subscribers, mu, connPc, connRoom, lastResp, peer>>

\* Mutant of NotifyReturn: the range is left at the first failed write.
NotifyReturnOnError(p) ==
  /\ pubs[p].pc = "range"
  /\ pubs[p].todo = {} \/ \E c \in pubs[p].snap \ pubs[p].todo :
                            \E i \in 1..Len(wire[c]) : wire[c][i].pub = p /\ ~wire[c][i].ok
  /\ pubs' = [pubs EXCEPT ![p].pc = "done"]
  /\ MutexUnlock
  /\ StoreUnchanged
  /\ UNCHANGED <<subscribers, connPc, connRoom, cancelled, wire, lastResp, peer>>

\* l.137: the range is exhausted; return, the deferred Unlock runs.
NotifyReturn(p) ==
  /\ pubs[p].pc = "range"
  /\ pubs[p].todo = {}
  /\ pubs' = [pubs EXCEPT ![p].pc = "done"]
  /\ MutexUnlock
  /\ StoreUnchanged
  /\ UNCHANGED <<subscribers, connPc, connRoom, cancelled, wire, lastResp, peer>>

\* ------------------------------------------------------ the remote peers
\* The handler holds the connection from the Upgrade (l.146) to the deferred
\* Close (l.153); nothing in it reads from the connection.
Connected(c) == connPc[c] \in {"lock1", "cs1", "wait", "lock2", "cs2", "closing"}

PeerUnchanged ==
  /\ StoreUnchanged
  /\ UNCHANGED <<subscribers, mu, connPc, connRoom, cancelled, pubs, wire, lastResp>>

\* The client stops reading and the socket's send buffer is full.
PeerStall(c) ==
  /\ Connected(c) /\ peer[c] = "reading"
  /\ peer' = [peer EXCEPT ![c] = "stalled"]
  /\ PeerUnchanged

\* The client reads again.
PeerResume(c) ==
  /\ Connected(c) /\ peer[c] = "stalled"
  /\ peer' = [peer EXCEPT ![c] = "reading"]
  /\ PeerUnchanged

\* The client closes its end of the connection. No step of the server observes
\* it but a later WriteJSON, which may fail.
PeerDisconnect(c) ==
  /\ Connected(c) /\ peer[c] # "closed"
  /\ peer' = [peer EXCEPT ![c] = "closed"]
  /\ PeerUnchanged

Peers(cs) == \E c \in cs : PeerStall(c) \/ PeerResume(c) \/ PeerDisconnect(c)

\* -------------------------------------------------------------------- Next
\* What can go wrong in a request whatever its URL: the room query fails, the
\* body is not JSON, the statement fails, the websocket upgrade fails. A
\* handler returns at the first of them, so a request meets at most one; each
\* handler is offered the ones its code can meet.
Faults == {"none", "room", "json", "db", "upgrade"}

\* The HTTP requests other than /subscribe, their inputs drawn from the given
\* sets.
Requests(faults, rawRooms, rawMsgs) ==
  \/ \E f \in faults \ {"room", "upgrade"} : HandleCreateRoom(f)
  \/ \E r \in rawRooms, text \in Texts, f \in faults \ {"upgrade"} :
       HandleCreateRoomMessage(r, text, f)
  \/ \E r \in rawRooms, m \in rawMsgs, f \in faults \ {"json", "upgrade"} :
       HandleReactToMessage(r, m, f)
  \/ \E r \in rawRooms, m \in rawMsgs, f \in faults \ {"json", "upgrade"} :
       HandleRemoveReactFromMessage(r, m, f)
  \/ \E r \in rawRooms, m \in rawMsgs, f \in faults \ {"json", "upgrade"} :
       HandleMarkMessageAsAnswered(r, m, f)

\* The steps the server takes by itself once a request is in: those of the
\* handleSubscribe invocations cs and of the notifyClients goroutines.
Tasks(cs) ==
  \/ \E c \in cs : SubscribeLock1(c)
  \/ \E c \in cs : SubscribeRegister(c)
  \/ \E c \in cs : SubscribeDone(c)
  \/ \E c \in cs : SubscribeLock2(c)
  \/ \E c \in cs : SubscribeUnregister(c)
  \/ \E c \in cs : SubscribeClose(c)
  \/ \E p \in PubIDs : NotifyLock(p)
  \/ \E p \in PubIDs : NotifyLookup(p)
  \/ \E p \in PubIDs, c \in cs, ok \in BOOLEAN : NotifyWrite(p, c, ok)
  \/ \E p \in PubIDs : NotifyReturn(p)

\* The websocket connections cs and the notifyClients goroutines.
Hub(cs, faults, rawRooms) ==
  \/ \E c \in cs, r \in rawRooms, f \in faults \ {"json", "db"} : SubscribeStart(c, r, f)
  \/ \E c \in cs : RequestCtxCancel(c)
  \/ Tasks(cs)

\* Every request with every input and outcome, every connection, every peer.
Next ==
  \/ Requests(Faults, RawRoomIDs, RawMsgIDs)
  \/ Hub(Conns, Faults, RawRoomIDs)
  \/ Peers(Conns)

Spec == Init /\ [][Next]_vars

\* The hub under well-formed requests that meet no fault (rooms are created,
\* messages posted and reacted to): every connection, every interleaving of
\* the goroutines.
NextHub ==
  \/ HandleCreateRoom("none")
  \/ \E r \in RoomIDs, text \in Texts : HandleCreateRoomMessage(r, text, "none")
  \/ \E r \in RoomIDs, m \in MsgIDs : HandleReactToMessage(r, m, "none")
  \/ Hub(Conns, {"none"}, RoomIDs)

SpecHub == Init /\ [][NextHub]_vars

\* Every request with every input and outcome, and one websocket connection.
NextApi == Requests(Faults, RawRoomIDs, RawMsgIDs) \/ Hub({1}, Faults, RawRoomIDs)

SpecApi == Init /\ [][NextApi]_vars

\* The hub of SpecHub with the remote peers, which stall, resume and leave.
NextFair == NextHub \/ Peers(Conns)

\* The Go scheduler runs every runnable goroutine, and a sync.Mutex hands the
\* lock to a goroutine that keeps waiting for it (starvation mode): a step of
\* a task that stays enabled is taken, a Lock that is enabled again and again
\* is taken. Requests, cancellations of the request context and the peers
\* are under no obligation.
Fairness ==
  /\ \A c \in Conns :
       /\ WF_vars(SubscribeRegister(c) \/ SubscribeDone(c)
                    \/ SubscribeUnregister(c) \/ SubscribeClose(c))
       /\ SF_vars(SubscribeLock1(c) \/ SubscribeLock2(c))
  /\ \A p \in 1..MaxPubs :
       /\ SF_vars(p \in PubIDs /\ NotifyLock(p))
       /\ WF_vars(p \in PubIDs /\ (NotifyLookup(p) \/ NotifyReturn(p)
                     \/ \E c \in Conns, ok \in BOOLEAN : NotifyWrite(p, c, ok)))

SpecFair == Init /\ [][NextFair]_vars /\ Fairness

\* ===================================================================
\* Properties
\* ===================================================================
Writes(c) == 1..Len(wire[c])

\* notifyClients goroutine p has called WriteJSON on connection c
Written(p) == {c \in Conns : \E i \in Writes(c) : wire[c][i].pub = p}

WriteOK(p, c)     == \E i \in Writes(c) : wire[c][i].pub = p /\ wire[c][i].ok
WriteFailed(p, c) == \E i \in Writes(c) : wire[c][i].pub = p /\ ~wire[c][i].ok

HasFailedWrite(c) == \E i \in Writes(c) : ~wire[c][i].ok

Registered(c) == c \in Listeners(connRoom[c])

RoomOf(p) == pubs[p].msg.RoomID

C3_IssueOrderPreserved ==
  \A c \in Conns : \A i, j \in Writes(c) :
    (i < j /\ wire[c][i].ok /\ wire[c][j].ok) => wire[c][i].pub < wire[c][j].pub

\* ------------------------------------------------------------------- C4
WriteInProgress(p) == pubs[p].pc = "range" /\ pubs[p].todo # {}

C5_WritesStayInRoom ==
  \A p \in PubIDs :
    /\ \A c \in Written(p) : connRoom[c] = RoomOf(p)
    /\ Written(p) \subseteq pubs[p].snap
    /\ pubs[p].pc = "range" => Written(p) \subseteq Listeners(RoomOf(p))

\* A publish has written to every listener of its room while another room
\* had a listener, which it left alone.
C5_Witness ==
  \E p \in PubIDs : \E d \in Conns :
    /\ pubs[p].pc = "range" /\ pubs[p].todo = {} /\ Written(p) # {}
    /\ Registered(d) /\ connRoom[d] # RoomOf(p)
    /\ d \notin Written(p)

\* ------------------------------------------------------------------- C6
\* C6: a publish that finds no map for its room, or an empty one, returns in
\* that step with the mutex released and nothing else changed, and it never
\* writes to a connection.
C6_EmptyRoomIsNoOp ==
  /\ [](\A p \in PubIDs : pubs[p].snap = {} => Written(p) = {})
  /\ [][\A p \in PubIDs :
          (pubs[p].pc = "locked" /\ Listeners(RoomOf(p)) = {} /\ pubs'[p] # pubs[p]) =>
             /\ pubs'[p].pc = "done"
             /\ mu = PubTask(p) /\ mu' = NoOwner
             /\ wire' = wire /\ cancelled' = cancelled /\ subscribers' = subscribers
             /\ connPc' = connPc]_vars

\* A publish to a room whose map exists and is empty has returned.
C6_Witness ==
  \E p \in PubIDs :
    /\ pubs[p].pc = "done" /\ pubs[p].snap = {} /\ Written(p) = {}
    /\ RoomOf(p) \in DOMAIN subscribers
    /\ mu = NoOwner

\* ------------------------------------------------------------------- C7
\* The tasks that are between a Lock and its Unlock.
InRegistry ==
  {ConnTask(c) : c \in {d \in Conns : connPc[d] \in {"cs1", "cs2"}}}
    \cup {PubTask(p) : p \in {q \in PubIDs : pubs[q].pc \in {"locked", "range"}}}

\* C7: at most one task is inside the registry at a time and it is the holder
\* of the mutex; the set a publish ranges over is the room's set throughout
\* the range, and a publish that returned has written to exactly that set.
C7_ConsistentSnapshot ==
  /\ Cardinality(InRegistry) <= 1
  /\ \A t \in InRegistry : mu = t
  /\ \A p \in PubIDs :
       /\ pubs[p].pc = "range" =>
            /\ Listeners(RoomOf(p)) = pubs[p].snap
            /\ Written(p) \cup pubs[p].todo = pubs[p].snap
       /\ pubs[p].pc = "done" => Written(p) = pubs[p].snap

\* A publish is ranging over a room while a connection waits to register for
\* that same room.
C7_Witness ==
  \E p \in PubIDs : \E c \in Conns :
    /\ WriteInProgress(p)
    /\ connPc[c] = "lock1" /\ connRoom[c] = RoomOf(p)
    /\ c \notin pubs[p].snap

\* ------------------------------------------------------------------- C8
MutationOps == {"create_message", "react", "unreact", "answer"}

\* A step of one of the four mutating handlers in which the room lookup, the
\* parsing of the message id or the storage call fails.
FailedMutation ==
  \E r \in RawRoomIDs, f \in Faults :
    \/ /\ ~readRoom(r, f) \/ f = "db"
       /\ \E text \in Texts : HandleCreateRoomMessage(r, text, f)
    \/ \E m \in RawMsgIDs :
         /\ ~readRoom(r, f) \/ ~ParseOK(m) \/ OneRowErr(messages, m, f)
         /\ HandleReactToMessage(r, m, f) \/ HandleRemoveReactFromMessage(r, m, f)
    \/ \E m \in RawMsgIDs :
         /\ ~readRoom(r, f) \/ ~ParseOK(m) \/ ExecErr(messages, m, f)
         /\ HandleMarkMessageAsAnswered(r, m, f)

\* C8: a mutating request whose room lookup, message-id parsing or storage
\* call fails starts no notifyClients goroutine and is not answered 200; a
\* goroutine is started only by a mutating request that is answered 200.
C8_NoEventOnFailure ==
  /\ [][(pubs' = pubs /\ lastResp'.status # StatusOK) \/ ~FailedMutation]_vars
  /\ [][pubs' # pubs /\ Len(pubs') > Len(pubs) =>
          (lastResp'.op \in MutationOps /\ lastResp'.status = StatusOK)]_vars

\* A reaction to a stored message failed in storage while its room had a
\* listener, and the only goroutine ever started is the one of the message's
\* creation.
C8_Witness ==
  /\ lastResp = Resp("react", StatusInternalServerError)
  /\ DOMAIN messages # {}
  /\ \E c \in Conns : Registered(c)
  /\ Len(pubs) = 1 /\ pubs[1].msg.Kind = MessageKindMessageCreated

\* ------------------------------------------------------------------- C9
\* C9: every event delivered to a listener is about a message that has a row
\* in storage (a request naming a message that does not exist delivers
\* nothing).
C9_NoEventForMissingMessage ==
  \A c \in Conns : \A i \in Writes(c) :
    wire[c][i].ok => pubs[wire[c][i].pub].msg.ID \in DOMAIN messages

\* ------------------------------------------------------------------ C10
\* C10: an event about a stored message that a listener receives is about a
\* message of the room the listener subscribed to.
C10_EventReachesOwnRoomOnly ==
  \A c \in Conns : \A i \in Writes(c) :
    LET msg == pubs[wire[c][i].pub].msg IN
      (wire[c][i].ok /\ msg.ID \in DOMAIN messages) =>
         messages[msg.ID].room_id = connRoom[c]

\* ------------------------------------------------------------------ C11
\* C11: the response of a mutating request does not wait for the fan-out of
\* its event. A mutating request whose room and message exist is answered
\* whoever holds the mutex and whatever the notifyClients goroutines are
\* doing; in the step that answers it its goroutine is only spawned (it holds
\* no lock and has written nothing); and no step of a notifyClients
\* goroutine, a failed write included, changes the response or the stored
\* rows.
C11_ResponseIndependentOfFanOut ==
  /\ [](\A r \in rooms, m \in DOMAIN messages :
          Len(pubs) < MaxPubs =>
            /\ ENABLED HandleReactToMessage(r, m, "none")
            /\ ENABLED HandleRemoveReactFromMessage(r, m, "none")
            /\ ENABLED HandleMarkMessageAsAnswered(r, m, "none"))
  /\ [][Len(pubs') > Len(pubs) =>
          /\ pubs'[Len(pubs')].pc = "spawned"
          /\ lastResp'.op \in {"create_message", "react", "unreact", "answer"}
          /\ lastResp'.status = StatusOK
          /\ wire' = wire /\ mu' = mu /\ cancelled' = cancelled]_vars
  /\ [][(\E p \in PubIDs : pubs'[p] # pubs[p]) =>
          (lastResp' = lastResp /\ messages' = messages /\ rooms' = rooms)]_vars

\* A reaction has been answered 200 while the goroutine of an earlier request
\* still holds the mutex after a failed write, and the reaction's own
\* goroutine has not got the lock.
C11_Witness ==
  /\ Len(pubs) = 2
  /\ pubs[1].pc = "range" /\ mu = PubTask(1)
  /\ \E c \in Conns : WriteFailed(1, c)
  /\ pubs[2].pc = "spawned"
  /\ lastResp = Resp("react", StatusOK)

\* ------------------------------------------------------------------ C12
\* The event of the goroutine a step has just started.
NewEvent == pubs'[Len(pubs')].msg

\* C12: a step starts at most one goroutine and leaves the events of the
\* earlier ones alone, and every mutating request that meets no fault (it is
\* answered 200) starts exactly one, whose event has the kind of the operation, the room id of the
\* request and the value storage returned: the id and text of the new row for
\* a created message, the message id and the row's new reaction_count for a
\* reaction added or removed, the message id for a message marked answered.
C12_OneEventPerMutation ==
  [][/\ Len(pubs') \in {Len(pubs), Len(pubs) + 1}
     /\ \A p \in PubIDs : pubs'[p].msg = pubs[p].msg
     /\ \A r \in IF lastResp'.status = StatusOK /\ wire' = wire THEN rooms ELSE {} :
          /\ \A text \in Texts :
               HandleCreateRoomMessage(r, text, "none") =>
                 /\ Len(pubs') = Len(pubs) + 1
                 /\ NewEvent.Kind = MessageKindMessageCreated
                 /\ NewEvent.RoomID = r
                 /\ DOMAIN messages' \ DOMAIN messages = {NewEvent.ID}
                 /\ NewEvent.Message = text
                 /\ messages'[NewEvent.ID].message = text
          /\ \A m \in DOMAIN messages :
               /\ HandleReactToMessage(r, m, "none") =>
                    /\ Len(pubs') = Len(pubs) + 1
                    /\ NewEvent.Kind = MessageKindMessageRactionIncreased
                    /\ NewEvent.RoomID = r /\ NewEvent.ID = m
                    /\ NewEvent.Count = messages'[m].reaction_count
                    /\ NewEvent.Count = messages[m].reaction_count + 1
               /\ HandleRemoveReactFromMessage(r, m, "none") =>
                    /\ Len(pubs') = Len(pubs) + 1
                    /\ NewEvent.Kind = MessageKindMessageRactionDecreased
                    /\ NewEvent.RoomID = r /\ NewEvent.ID = m
                    /\ NewEvent.Count = messages'[m].reaction_count
                    /\ NewEvent.Count = messages[m].reaction_count - 1
          /\ \A m \in MsgIDs :
               HandleMarkMessageAsAnswered(r, m, "none") =>
                 /\ Len(pubs') = Len(pubs) + 1
                 /\ NewEvent.Kind = MessageKindMessageAnswered
                 /\ NewEvent.RoomID = r /\ NewEvent.ID = m]_vars

\* A message was posted and a reaction to it removed: the two events are the
\* only ones, the second carries the count the row now has.
C12_Witness ==
  /\ Len(pubs) = 2
  /\ pubs[1].msg.Kind = MessageKindMessageCreated
  /\ pubs[1].msg.ID \in DOMAIN messages
  /\ pubs[1].msg.Message = messages[pubs[1].msg.ID].message
  /\ pubs[2].msg.Kind = MessageKindMessageRactionDecreased
  /\ pubs[2].msg.ID = pubs[1].msg.ID
  /\ pubs[2].msg.Count = messages[pubs[2].msg.ID].reaction_count
  /\ lastResp = Resp("unreact", StatusOK)

\* ------------------------------------------------------------------ C13
\* The connections that have not got past the Lock of their Register.
NotYetRegistered(c) == connPc[c] \in {"idle", "lock1"}

\* C13 as stated: Register of a connection followed at once by its Unregister
\* gives back the registry exactly as it was, also when the room had no map:
\* computed on the registry a task is about to register in, and seen in the
\* run in which one connection has registered and unregistered while no other
\* has touched the registry.
C13_RegisterUnregisterIsIdentity ==
  \A c \in Conns :
    /\ connPc[c] = "cs1" =>
         Unregister(Register(subscribers, connRoom[c], c), connRoom[c], c) = subscribers
    /\ (connPc[c] \in {"closing", "closed"}
          /\ \A d \in Conns \ {c} : NotYetRegistered(d)) =>
         subscribers = <<>>

\* C13 amended: Register followed at once by Unregister leaves the listener
\* set of every room as it was, and the registry has a map for exactly the
\* rooms that had one and the room of the connection: a room that had no map
\* is left with an empty one.
C13_RegisterUnregisterKeepsListeners ==
  \A c \in Conns :
    /\ connPc[c] = "cs1" =>
         LET after == Unregister(Register(subscribers, connRoom[c], c), connRoom[c], c) IN
           /\ \A r \in RoomIDs : ListenersIn(after, r) = Listeners(r)
           /\ DOMAIN after = DOMAIN subscribers \cup {connRoom[c]}
    /\ (connPc[c] \in {"closing", "closed"}
          /\ \A d \in Conns \ {c} : NotYetRegistered(d)) =>
         subscribers = [r \in {connRoom[c]} |-> {}]

\* One connection has registered and unregistered in a room that had no map,
\* no other connection having touched the registry: the room has an empty map.
C13_Witness ==
  \E c \in Conns :
    /\ connPc[c] = "closing"
    /\ \A d \in Conns \ {c} : NotYetRegistered(d)
    /\ connRoom[c] \in DOMAIN subscribers
    /\ Listeners(connRoom[c]) = {}

\* ------------------------------------------------------------------ C14
\* C14: once the client of a registered listener has closed its connection the
\* listener is on its way out of the registry -- its context is cancelled or
\* some task of the server has a step to take. (While no peer is stalled: a
\* state where the listener is registered, not cancelled, and every task of
\* the server is waiting can be left only by a new request, so the listener
\* is not eventually unregistered.)
C14_ClosedPeerIsUnregistered ==
  \A c \in Conns :
    (peer[c] = "closed" /\ Registered(c) /\ \A d \in Conns : peer[d] # "stalled") =>
       cancelled[c] \/ ENABLED Tasks(Conns)

\* ------------------------------------------------------------------ C15
\* C15: a listener with a failed write is on its way out of the registry and
\* to Closed -- as long as its task has not returned, some task of the server
\* has a step to take (the listener's own task, or the holder of the mutex it
\* waits for). A state where it has not returned and every task is waiting
\* can be left only by a request or by a peer, so under fair scheduling of
\* the tasks and of the lock the listener is not eventually removed.
C15_FailedListenerEventuallyCloses ==
  \A c \in Conns :
    (HasFailedWrite(c) /\ connPc[c] # "closed") => ENABLED Tasks(Conns)

\* ------------------------------------------------------------------ C18
\* C18: while a publish ranges over a room's listeners with the mutex held,
\* some task of the server has a step to take (a WriteJSON of the publish
\* returns, the publish returns, or a task that needs no lock moves), so that
\* the publish eventually unlocks: no state is reachable in which it waits on
\* the write to one listener and every other task waits with it.
C18_PublishNotStuckOnOneListener ==
  \A p \in PubIDs :
    pubs[p].pc = "range" => ENABLED Tasks(Conns)

\* ------------------------------------------------------------------ C16
\* C16: a connection is in the listener set of at most one room, the room its
\* handleSubscribe was called for, and the listener sets of two rooms have no
\* connection in common.
C16_OneRoomPerListener ==
  /\ \A c \in Conns : \A r \in DOMAIN subscribers :
       c \in subscribers[r] => r = connRoom[c]
  /\ \A r, q \in DOMAIN subscribers :
       r # q => subscribers[r] \cap subscribers[q] = {}

\* Two connections are registered, each in its own room.
C16_Witness ==
  \E c, d \in Conns :
    /\ Registered(c) /\ Registered(d)
    /\ connRoom[c] # connRoom[d]
    /\ c \notin Listeners(connRoom[d]) /\ d \notin Listeners(connRoom[c])

\* ------------------------------------------------------------------ C17
\* The WriteJSON calls goroutine p has made on connection c.
Attempts(p, c) == {i \in Writes(c) : wire[c][i].pub = p}

\* C17: a publish calls WriteJSON exactly once on every connection that was in
\* the room's set when it took the mutex, whatever writes fail: while it
\* ranges, once on each connection it has passed and not yet on the others;
\* when it has returned, once on each; never on any other connection.
C17_EveryListenerAttemptedOnce ==
  \A p \in PubIDs : \A c \in Conns :
    /\ c \notin pubs[p].snap => Attempts(p, c) = {}
    /\ (pubs[p].pc = "range" /\ c \in pubs[p].todo) => Attempts(p, c) = {}
    /\ (pubs[p].pc = "range" /\ c \in pubs[p].snap \ pubs[p].todo) =>
         Cardinality(Attempts(p, c)) = 1
    /\ (pubs[p].pc = "done" /\ c \in pubs[p].snap) => Cardinality(Attempts(p, c)) = 1

\* A publish to a room of two listeners has returned: the write to one failed
\* and the other was written to all the same.
C17_Witness ==
  \E p \in PubIDs : \E c, d \in Conns :
    /\ pubs[p].pc = "done" /\ pubs[p].snap = {c, d} /\ c # d
    /\ WriteFailed(p, c)
    /\ WriteOK(p, d)

\* ------------------------------------------------------------------ C19
\* C19: deleting a connection that is not in the room's map, or from a room
\* that has no map, leaves the registry as it is; and the delete of a
\* registered connection runs once: the connection stays in its room's set
\* from its Register until its own task runs the delete, however many writes
\* to it have failed, it leaves the set in that one step, and the task never
\* comes back to it.
C19_RemovalOnceAndIdempotent ==
  /\ [](\A c \in Conns : \A r \in RawRoomIDs :
          c \notin Listeners(r) => Unregister(subscribers, r, c) = subscribers)
  /\ [](\A c \in Conns :
          /\ connPc[c] \in {"wait", "lock2", "cs2"} => Registered(c)
          /\ connPc[c] \in {"closing", "closed"} => (~Registered(c) /\ cancelled[c]))
  /\ [][\A c \in Conns :
          /\ (Registered(c) /\ c \notin ListenersIn(subscribers', connRoom'[c])) =>
               (connPc[c] = "cs2" /\ connPc'[c] = "closing")
          /\ connPc[c] \in {"closing", "closed"} =>
               connPc'[c] \in {"closing", "closed"}]_vars

\* A listener to which two writes in a row failed has been removed by its
\* task, and its task is returning.
C19_Witness ==
  \E c \in Conns :
    /\ Len(wire[c]) = 2 /\ ~wire[c][1].ok /\ ~wire[c][2].ok
    /\ connPc[c] = "closing"
    /\ ~Registered(c) /\ connRoom[c] \in DOMAIN subscribers

\* ------------------------------------------------------------------ C20
\* C20: no step of a notifyClients goroutine changes the registry, whether
\* its writes succeed or fail, and when it returns the room's set is the one
\* it found when it took the mutex; a connection enters or leaves a listener
\* set only in the Register and the Unregister step of its own handleSubscribe
\* task, and only the set of its own room.
C20_NotifyLeavesRegistryAlone ==
  /\ [][\A p \in PubIDs :
          pubs'[p] # pubs[p] =>
            /\ subscribers' = subscribers
            /\ (pubs[p].pc = "range" /\ pubs'[p].pc = "done") =>
                 ListenersIn(subscribers', RoomOf(p)) = pubs[p].snap]_vars
  /\ [][\A c \in Conns : \A r \in RoomIDs :
          ((c \in Listeners(r)) # (c \in ListenersIn(subscribers', r))) =>
             /\ r = connRoom[c]
             /\ \/ connPc[c] = "cs1" /\ connPc'[c] = "wait"
                \/ connPc[c] = "cs2" /\ connPc'[c] = "closing"]_vars

\* A publish has returned with every one of its writes failed, and the room's
\* listener set is still the one it ranged over.
C20_Witness ==
  \E p \in PubIDs :
    /\ pubs[p].pc = "done" /\ pubs[p].snap # {}
    /\ \A c \in pubs[p].snap : WriteFailed(p, c) /\ ~WriteOK(p, c)
    /\ Listeners(RoomOf(p)) = pubs[p].snap
    /\ mu = NoOwner

\* ------------------------------------------------------------------ C21
\* C21: a connection that is in the registry belongs to a handleSubscribe
\* task that has not yet run its delete, so its deferred Close has not run;
\* the connections a publish ranges over are of tasks that have not even got
\* the lock for their delete; and a connection whose task is returning or has
\* returned is in no room's set, so that no WriteJSON is called on it.
C21_RegisteredMeansOpen ==
  /\ \A c \in Conns : \A r \in DOMAIN subscribers :
       c \in subscribers[r] => connPc[c] \in {"wait", "lock2", "cs2"}
  /\ \A p \in PubIDs :
       pubs[p].pc = "range" =>
         \A c \in pubs[p].snap : connPc[c] \in {"wait", "lock2"}
  /\ \A c \in Conns :
       connPc[c] \in {"closing", "closed"} =>
         \A p \in PubIDs : pubs[p].pc = "range" => c \notin pubs[p].todo

\* A publish ranges over a room in which one connection has been closed by its
\* task and another is still registered: only the latter is written to.
C21_Witness ==
  \E p \in PubIDs : \E c, d \in Conns :
    /\ connPc[c] = "closed" /\ connRoom[c] = RoomOf(p)
    /\ pubs[p].pc = "range" /\ pubs[p].snap = {d} /\ c # d
    /\ WriteOK(p, d) /\ Attempts(p, c) = {}

\* ------------------------------------------------------------------ C22
\* The connections whose task has got past the Unlock of its Register.
CompletedRegister(c) == connPc[c] \notin {"idle", "lock1", "cs1"}

\* C22: a connection that has completed Register and whose context is not
\* cancelled is in its room's set, its task waiting on ctx.Done(); a publish
\* to its room that ranges while it is in that state has it among the
\* connections it ranges over, and has written to it or is still to write to
\* it.
C22_RegisteredUntilCancelled ==
  \A c \in Conns :
    (CompletedRegister(c) /\ ~cancelled[c]) =>
      /\ Registered(c) /\ connPc[c] = "wait"
      /\ \A p \in PubIDs :
           (pubs[p].pc = "range" /\ RoomOf(p) = connRoom[c]) =>
             /\ c \in pubs[p].snap
             /\ c \in pubs[p].todo \/ Attempts(p, c) # {}

\* A publish has written to a listener that is registered and not cancelled,
\* in a room another connection has left after its context was cancelled.
C22_Witness ==
  \E p \in PubIDs : \E c, d \in Conns :
    /\ CompletedRegister(c) /\ ~cancelled[c] /\ Registered(c)
    /\ pubs[p].pc = "range" /\ RoomOf(p) = connRoom[c]
    /\ c \in pubs[p].snap /\ Attempts(p, c) # {}
    /\ d # c /\ connRoom[d] = connRoom[c] /\ cancelled[d] /\ connPc[d] = "closing"

====
